---- MODULE Spec2Model ----
(***************************************************************************)
(* Model of pygeotogether: the GeoTogetherClient session state machine     *)
(* (authenticate, resolve_system, the three data-fetching operations) and  *)
(* the usage aggregation of geotogether.py, with the domain types of       *)
(* geocommon.py.                                                           *)
(***************************************************************************)
EXTENDS Integers, Sequences, FiniteSets, TLC

(***************************************************************************)
(* Bounds of the model.                                                    *)
(***************************************************************************)
\* longest systemDetails list of a detail-systems response
MaxSystems == 2
\* most sub-periods in the totalsList of a historic response
MaxSubPeriods == 2
\* most commodity entries in one historic response, over all sub-periods
MaxEntries == 2
\* largest |offset| passed to get_historic_usage
MaxOffset == 1
\* most entries in one periodic response, over its four sections
MaxPeriodicEntries == 3
\* largest |offset| passed to GeoTimePeriod.resolve directly
MaxResolveOffset == 13
\* most days that pass while the process runs
MaxDaysPassed == 2

(***************************************************************************)
(* Python values: None, bool, str, int and list, each tagged with its     *)
(* type so that truthiness and `is None` are computed as Python does.      *)
(***************************************************************************)
PyNone == [t |-> "NoneType"]
PyBool(b) == [t |-> "bool", b |-> b]
PyStr(s) == [t |-> "str", s |-> s]
PyInt(i) == [t |-> "int", i |-> i]
PyList(l) == [t |-> "list", l |-> l]
PyTuple(l) == [t |-> "tuple", l |-> l]

\* bool(v) of a Python value
Truthy(v) ==
    CASE v.t = "NoneType" -> FALSE
      [] v.t = "bool" -> v.b
      [] v.t = "str" -> v.s # ""
      [] v.t = "int" -> v.i # 0
      [] v.t = "list" -> v.l # <<>>

\* a JSON object with no keys
EmptyObj == [k \in {} |-> 0]

(***************************************************************************)
(* Exceptions of geocommon.py and the one of aiohttp the client catches.   *)
(***************************************************************************)
NoError == [cls |-> "", msg |-> <<>>]
GeoTogetherError(msg) == [cls |-> "GeoTogetherError", msg |-> msg]
GeoTogetherAuthenticationError(msg) == [cls |-> "GeoTogetherAuthenticationError", msg |-> msg]
GeoTogetherSystemError(msg) == [cls |-> "GeoTogetherSystemError", msg |-> msg]
\* asyncio.CancelledError, a BaseException no handler of the client catches
CancelledError == [cls |-> "CancelledError", msg |-> <<>>]

\* isinstance(e, cls) along the class hierarchy: both specific errors derive
\* from GeoTogetherError
IsInstance(e, cls) ==
    \/ e.cls = cls
    \/ /\ cls = "GeoTogetherError"
       /\ e.cls \in {"GeoTogetherAuthenticationError", "GeoTogetherSystemError"}

(***************************************************************************)
(* Domain enums.  A member is named by its Python member name; lookups     *)
(* `Enum[name]` are by member name.                                        *)
(***************************************************************************)
GeoEnergyType == {"ELECTRICITY", "GAS_ENERGY"}
GeoTimePeriod == {"DAY", "WEEK", "MONTH", "UNBILLED", "FOREVER"}

\* GeoTimePeriod.value
TimePeriodValue(p) ==
    CASE p = "DAY" -> "Day"
      [] p = "WEEK" -> "Week"
      [] p = "MONTH" -> "Month"
      [] p = "UNBILLED" -> "Since Last Bill"
      [] p = "FOREVER" -> "All Time"

GeoEnergyUsage(period, energy_type, energy_amount, energy_cost) ==
    [period |-> period, type |-> energy_type,
     amount |-> energy_amount, cost |-> energy_cost]

GeoPeriodicEnergyUsage(energy_type, usage) ==
    [type |-> energy_type, usage |-> usage]

GeoLivePowerUsage(api_power_usage) == [live_usage |-> api_power_usage]

(***************************************************************************)
(* The world: clients, HTTP sessions, the vendor API's answers.            *)
(***************************************************************************)
Clients == {"c1", "c2"}
\* the session a client creates for itself when none is injected
OwnSession(c) == <<"own", c>>
\* a session created by the caller and handed to the constructor
InjectedSession == <<"injected", "s">>
Sessions == {OwnSession(c) : c \in Clients} \cup {InjectedSession}

Tokens == {"t1", "t2"}
\* value of the Authorization header; <<>> when the header is not set
NoHeader == <<>>
Bearer(token) == <<"Bearer ", token>>

_build_url(uri) == <<"https://api.geotogether.com/">> \o uri

VARIABLES
    system_id,              \* client -> self._system_id
    client_session,         \* client -> self._client_session
    owns_client_session,    \* client -> self._owns_client_session
    headers,                \* session -> its Authorization header
    closed,                 \* session -> whether close() was called on it
    default_start_date,     \* resolve's default start_date: date.today() at import
    today,                  \* what date.today() returns now
    last,                   \* the last call made: arguments, requests, outcome
    server                  \* the response drawn for a single-call specification

vars == <<system_id, client_session, owns_client_session, headers, closed,
          default_start_date, today, last, server>>

\* what no client method assigns between construction and teardown
fixed == <<client_session, owns_client_session, default_start_date, today, closed>>

(***************************************************************************)
(* Responses.  A request either fails in the transport (aiohttp raises a   *)
(* ClientError) or yields a status and a JSON body.                        *)
(***************************************************************************)
TransportError == [kind |-> "ClientError"]
\* no request was made, so there is no response
NoResponse == [kind |-> "none"]
\* the task awaiting the request is cancelled before a response is handled:
\* the await raises asyncio.CancelledError, which is no ClientError
Cancelled == [kind |-> "Cancelled"]
Http(status, body) == [kind |-> "http", status |-> status, body |-> body]

Statuses == {200, 401, 500}

\* a request as the session sends it: the session's Authorization header
\* travels with every request
Request(c, method, url, json) ==
    [method |-> method, url |-> url, json |-> json,
     authorization |-> headers[client_session[c]]]

\* the record of one call of a client method
Call(c, op, args, resp, requests, raised, ret) ==
    [op |-> op, client |-> c, args |-> args,
     pre_headers |-> headers, pre_system_id |-> system_id,
     resp |-> resp, requests |-> requests, raised |-> raised, ret |-> ret]

NoCall ==
    [op |-> "none", client |-> "none", args |-> EmptyObj,
     pre_headers |-> [s \in Sessions |-> NoHeader],
     pre_system_id |-> [c \in Clients |-> PyNone],
     resp |-> NoResponse, requests |-> <<>>, raised |-> NoError, ret |-> PyNone]

(***************************************************************************)
(* GeoTogetherClient.__init__: no system resolved; the session is the      *)
(* injected one when given, else a fresh one owned by the client.  A fresh *)
(* ClientSession has no Authorization header.  Only the clients of         *)
(* `injectable` may be handed the caller's session.                        *)
(***************************************************************************)
ClientInit(injectable) ==
    /\ system_id = [c \in Clients |-> PyNone]
    /\ owns_client_session \in {f \in [Clients -> BOOLEAN] :
                                    \A c \in Clients \ injectable : f[c]}
    /\ client_session = [c \in Clients |->
            IF owns_client_session[c] THEN OwnSession(c) ELSE InjectedSession]
    /\ headers = [s \in Sessions |-> NoHeader]
    /\ closed = [s \in Sessions |-> FALSE]
    /\ last = NoCall

(***************************************************************************)
(* A call whose request req is cancelled in flight: CancelledError leaves  *)
(* the method at the await, before any statement that assigns.             *)
(***************************************************************************)
\* mutant: the token is dropped when the request is abandoned
Interrupted_drops_token(c, op, args, req) ==
    /\ last' = Call(c, op, args, Cancelled, <<req>>, CancelledError, PyNone)
    /\ headers' = [headers EXCEPT ![client_session[c]] = NoHeader]
    /\ UNCHANGED <<system_id, fixed>>

Interrupted(c, op, args, req) ==
    /\ last' = Call(c, op, args, Cancelled, <<req>>, CancelledError, PyNone)
    /\ UNCHANGED <<system_id, headers, fixed>>

(***************************************************************************)
(* GeoTogetherClient.__aexit__(exc_type, exc, traceback): the session is   *)
(* closed when the client owns it; the method returns None, so an          *)
(* exception raised in the body of the `async with` keeps propagating.     *)
(***************************************************************************)
\* mutant: the session is closed only when the body raised nothing
__aexit___skips_on_error(c, exc) ==
    /\ closed' = IF owns_client_session[c] /\ exc = NoError
                 THEN [closed EXCEPT ![client_session[c]] = TRUE]
                 ELSE closed
    /\ last' = Call(c, "__aexit__", [exc |-> exc], NoResponse, <<>>, exc, PyNone)
    /\ UNCHANGED <<system_id, headers, client_session, owns_client_session,
                   default_start_date, today>>

\* mutant: the session is closed whoever created it
__aexit___closes_any(c, exc) ==
    /\ closed' = [closed EXCEPT ![client_session[c]] = TRUE]
    /\ last' = Call(c, "__aexit__", [exc |-> exc], NoResponse, <<>>, exc, PyNone)
    /\ UNCHANGED <<system_id, headers, client_session, owns_client_session,
                   default_start_date, today>>

__aexit__(c, exc) ==
    /\ closed' = IF owns_client_session[c]
                 THEN [closed EXCEPT ![client_session[c]] = TRUE]
                 ELSE closed
    /\ last' = Call(c, "__aexit__", [exc |-> exc], NoResponse, <<>>, exc, PyNone)
    /\ UNCHANGED <<system_id, headers, client_session, owns_client_session,
                   default_start_date, today>>

(***************************************************************************)
(* GeoTogetherClient._check_prerequisits: the error it raises, NoError     *)
(* when it returns.                                                        *)
(***************************************************************************)
\* mutant: the system is checked before the token
_check_prerequisits_system_first(c) ==
    IF ~Truthy(system_id[c])
    THEN GeoTogetherSystemError(<<"You must resolve the system before you can use this API">>)
    ELSE IF headers[client_session[c]] = NoHeader
    THEN GeoTogetherAuthenticationError(<<"You must authenticate before you can use this API">>)
    ELSE NoError

_check_prerequisits(c) ==
    IF headers[client_session[c]] = NoHeader
    THEN GeoTogetherAuthenticationError(<<"You must authenticate before you can use this API">>)
    ELSE IF ~Truthy(system_id[c])
    THEN GeoTogetherSystemError(<<"You must resolve the system before you can use this API">>)
    ELSE NoError

(***************************************************************************)
(* GeoTogetherClient.authenticate                                          *)
(***************************************************************************)
\* mutant: a 200 response counts as success whether or not it carries a
\* token, and the token is stored only when the session holds none yet
authenticate_first_token_only(c, resp) ==
    LET req == Request(c, "POST", _build_url(<<"usersservice/v2/login">>),
                       <<"identity", "password">>)
        ok == /\ resp.kind = "http"
              /\ resp.status = 200
    IN  /\ headers' = IF /\ ok
                         /\ "accessToken" \in DOMAIN resp.body
                         /\ headers[client_session[c]] = NoHeader
                      THEN [headers EXCEPT ![client_session[c]] = Bearer(resp.body.accessToken)]
                      ELSE headers
        /\ last' = Call(c, "authenticate", EmptyObj, resp, <<req>>, NoError, PyBool(ok))
        /\ UNCHANGED <<system_id, fixed>>

\* mutant: a successful login starts a new session and forgets the system
authenticate_forgets_system(c, resp) ==
    LET req == Request(c, "POST", _build_url(<<"usersservice/v2/login">>),
                       <<"identity", "password">>)
        ok == /\ resp.kind = "http"
              /\ resp.status = 200
              /\ "accessToken" \in DOMAIN resp.body
    IN  /\ headers' = IF ok
                      THEN [headers EXCEPT ![client_session[c]] = Bearer(resp.body.accessToken)]
                      ELSE headers
        /\ system_id' = IF ok THEN [system_id EXCEPT ![c] = PyNone] ELSE system_id
        /\ last' = Call(c, "authenticate", EmptyObj, resp, <<req>>, NoError, PyBool(ok))
        /\ UNCHANGED fixed

\* mutant: a failed login drops the token the session holds
authenticate_clears_on_failure(c, resp) ==
    LET req == Request(c, "POST", _build_url(<<"usersservice/v2/login">>),
                       <<"identity", "password">>)
        ok == /\ resp.kind = "http"
              /\ resp.status = 200
              /\ "accessToken" \in DOMAIN resp.body
    IN  /\ headers' = [headers EXCEPT ![client_session[c]] =
                            IF ok THEN Bearer(resp.body.accessToken) ELSE NoHeader]
        /\ last' = Call(c, "authenticate", EmptyObj, resp, <<req>>, NoError, PyBool(ok))
        /\ UNCHANGED <<system_id, fixed>>

authenticate(c, resp) ==
    LET req == Request(c, "POST", _build_url(<<"usersservice/v2/login">>),
                       <<"identity", "password">>)
        ok == /\ resp.kind = "http"
              /\ resp.status = 200
              /\ "accessToken" \in DOMAIN resp.body
    IN  IF resp.kind = "Cancelled" THEN Interrupted(c, "authenticate", EmptyObj, req)
        ELSE
        /\ headers' = IF ok
                      THEN [headers EXCEPT ![client_session[c]] = Bearer(resp.body.accessToken)]
                      ELSE headers
        /\ last' = Call(c, "authenticate", EmptyObj, resp, <<req>>, NoError, PyBool(ok))
        /\ UNCHANGED <<system_id, fixed>>

(***************************************************************************)
(* GeoTogetherClient.resolve_system                                        *)
(***************************************************************************)
\* the loop over systemDetails: the systemId of the first entry that has
\* both keys and passes the name test, or `current` when the loop ends
\* without a break
\* mutant: the loop has no break, so the last match is kept
RECURSIVE FindSystem_no_break(_, _, _)
FindSystem_no_break(systems, name, current) ==
    IF systems = <<>> THEN current
    ELSE LET system == Head(systems) IN
         FindSystem_no_break(
            Tail(systems), name,
            IF /\ "systemId" \in DOMAIN system
               /\ "name" \in DOMAIN system
               /\ (~Truthy(name) \/ PyStr(system.name) = name)
            THEN PyStr(system.systemId)
            ELSE current)

RECURSIVE FindSystem(_, _, _)
FindSystem(systems, name, current) ==
    IF systems = <<>> THEN current
    ELSE LET system == Head(systems) IN
         IF /\ "systemId" \in DOMAIN system
            /\ "name" \in DOMAIN system
            /\ (~Truthy(name) \/ PyStr(system.name) = name)
         THEN PyStr(system.systemId)
         ELSE FindSystem(Tail(systems), name, current)

resolve_system(c, name, resp) ==
    LET req == Request(c, "GET",
                       _build_url(<<"api/userapi/v2/user/detail-systems?systemDetails=true">>),
                       <<>>)
        found == IF /\ resp.kind = "http"
                    /\ resp.status = 200
                    /\ "systemDetails" \in DOMAIN resp.body
                 THEN FindSystem(resp.body.systemDetails, name, system_id[c])
                 ELSE system_id[c]
    IN  IF resp.kind = "Cancelled"
        THEN Interrupted(c, "resolve_system", [name |-> name], req)
        ELSE
        /\ system_id' = [system_id EXCEPT ![c] = found]
        /\ last' = Call(c, "resolve_system", [name |-> name], resp, <<req>>, NoError,
                        IF resp.kind = "ClientError" THEN PyBool(FALSE) ELSE found)
        /\ UNCHANGED <<headers, fixed>>

(***************************************************************************)
(* Dates.  A date is <<year, month, day>>; `date + relativedelta(...)` is  *)
(* computed through the proleptic Gregorian ordinal, as datetime does.     *)
(***************************************************************************)
IsLeap(y) == (y % 4 = 0) /\ ((y % 100 # 0) \/ (y % 400 = 0))

DaysInMonth(y, m) ==
    IF m = 2 THEN (IF IsLeap(y) THEN 29 ELSE 28)
    ELSE IF m \in {4, 6, 9, 11} THEN 30 ELSE 31

RECURSIVE DaysBeforeMonth(_, _)
DaysBeforeMonth(y, m) ==
    IF m = 1 THEN 0 ELSE DaysBeforeMonth(y, m - 1) + DaysInMonth(y, m - 1)

DaysBeforeYear(y) ==
    (y - 1) * 365 + ((y - 1) \div 4) - ((y - 1) \div 100) + ((y - 1) \div 400)

\* date.toordinal()
ToOrdinal(d) == DaysBeforeYear(d[1]) + DaysBeforeMonth(d[1], d[2]) + d[3]

RECURSIVE MonthOfDay(_, _, _)
\* month and day of the n-th day (from 1) of year y, searching from month m
MonthOfDay(y, m, n) ==
    IF n <= DaysInMonth(y, m) THEN <<y, m, n>>
    ELSE MonthOfDay(y, m + 1, n - DaysInMonth(y, m))

\* date.fromordinal(n)
FromOrdinal(n) ==
    LET n0 == n - 1
        n400 == n0 \div 146097
        r400 == n0 % 146097
        n100 == r400 \div 36524
        r100 == r400 % 36524
        n4 == r100 \div 1461
        r4 == r100 % 1461
        n1 == r4 \div 365
        r1 == r4 % 365
        year == n400 * 400 + 1 + n100 * 100 + n4 * 4 + n1
    IN  IF n1 = 4 \/ n100 = 4 THEN <<year - 1, 12, 31>>
        ELSE MonthOfDay(year, 1, r1 + 1)

\* date.weekday(): Monday is 0
Weekday(d) == (ToOrdinal(d) + 6) % 7

\* d + relativedelta(days=n)
AddDays(d, n) == FromOrdinal(ToOrdinal(d) + n)

\* d + relativedelta(months=n): the month moves, the day is clamped to the
\* length of the target month
AddMonths(d, n) ==
    LET k == d[1] * 12 + (d[2] - 1) + n
        y == k \div 12
        m == (k % 12) + 1
    IN  <<y, m, IF d[3] > DaysInMonth(y, m) THEN DaysInMonth(y, m) ELSE d[3]>>

\* d + relativedelta(day=n): the absolute day, clamped to the month's length
WithDay(d, n) ==
    <<d[1], d[2], IF n > DaysInMonth(d[1], d[2]) THEN DaysInMonth(d[1], d[2]) ELSE n>>

\* date.isoformat(), as its three fields
IsoFormat(d) == <<d[1], "-", d[2], "-", d[3]>>

NoDate == <<>>

\* mutant: the week starts on the shifted date, not on its Monday
resolve_week_unaligned(self, offset, start_date) ==
    CASE self = "DAY" ->
            LET from_date == AddDays(start_date, offset)
            IN  <<from_date, from_date>>
      [] self = "WEEK" ->
            LET from_date == AddDays(start_date, 7 * offset)
            IN  <<from_date, AddDays(from_date, 6)>>
      [] self = "MONTH" ->
            LET from_date == WithDay(AddMonths(start_date, offset), 1)
            IN  <<from_date, AddDays(AddMonths(from_date, 1), -1)>>
      [] OTHER -> <<<<>>, <<>>>>

\* mutant: the month's end is computed by going back a day before going
\* forward a month
resolve_month_days_first(self, offset, start_date) ==
    CASE self = "DAY" ->
            LET from_date == AddDays(start_date, offset)
            IN  <<from_date, from_date>>
      [] self = "WEEK" ->
            LET from_date == AddDays(start_date, 7 * offset - Weekday(start_date))
            IN  <<from_date, AddDays(from_date, 6)>>
      [] self = "MONTH" ->
            LET from_date == WithDay(AddMonths(start_date, offset), 1)
            IN  <<from_date, AddMonths(AddDays(from_date, -1), 1)>>
      [] OTHER -> <<<<>>, <<>>>>

\* mutant: the month's end is the day before its start
resolve_month_end_before_start(self, offset, start_date) ==
    CASE self = "DAY" ->
            LET from_date == AddDays(start_date, offset)
            IN  <<from_date, from_date>>
      [] self = "WEEK" ->
            LET from_date == AddDays(start_date, 7 * offset - Weekday(start_date))
            IN  <<from_date, AddDays(from_date, 6)>>
      [] self = "MONTH" ->
            LET from_date == WithDay(AddMonths(start_date, offset), 1)
            IN  <<from_date, AddDays(from_date, -1)>>
      [] OTHER -> <<<<>>, <<>>>>

(***************************************************************************)
(* GeoTimePeriod.resolve(offset, start_date)                               *)
(***************************************************************************)
resolve(self, offset, start_date) ==
    CASE self = "DAY" ->
            LET from_date == AddDays(start_date, offset)
            IN  <<from_date, from_date>>
      [] self = "WEEK" ->
            LET from_date == AddDays(start_date, 7 * offset - Weekday(start_date))
            IN  <<from_date, AddDays(from_date, 6)>>
      [] self = "MONTH" ->
            LET from_date == WithDay(AddMonths(start_date, offset), 1)
            IN  <<from_date, AddDays(AddMonths(from_date, 1), -1)>>
      [] OTHER -> <<NoDate, NoDate>>

(***************************************************************************)
(* The usage aggregation of geotogether.py.  A dict is the sequence of its *)
(* values in insertion order; each value carries its key (the energy type).*)
(***************************************************************************)
\* position of the value stored under energy_type, 0 when the key is absent
IndexOf(accumulator, energy_type) ==
    IF \E i \in 1..Len(accumulator) : accumulator[i].type = energy_type
    THEN CHOOSE i \in 1..Len(accumulator) : accumulator[i].type = energy_type
    ELSE 0

\* mutant: a later commodity total replaces the running totals
HistoricCommodityTotal_overwrite(time_period, usage, accumulator) ==
    LET energy_type == usage.commodityType
        amount == IF "energyKWh" \in DOMAIN usage THEN usage.energyKWh ELSE 0
        cost == IF "costPence" \in DOMAIN usage THEN usage.costPence ELSE 0
        i == IndexOf(accumulator, energy_type)
    IN  IF i # 0
        THEN [accumulator EXCEPT ![i].amount = PyInt(amount), ![i].cost = PyInt(cost)]
        ELSE Append(accumulator,
                    GeoEnergyUsage(time_period, energy_type, PyInt(amount), PyInt(cost)))

\* one iteration of the loop of _parse_historic_commodity_totals
HistoricCommodityTotal(time_period, usage, accumulator) ==
    LET energy_type == usage.commodityType
        amount == IF "energyKWh" \in DOMAIN usage THEN usage.energyKWh ELSE 0
        cost == IF "costPence" \in DOMAIN usage THEN usage.costPence ELSE 0
        i == IndexOf(accumulator, energy_type)
    IN  IF i # 0
        THEN [accumulator EXCEPT
                ![i].amount = PyInt(accumulator[i].amount.i + amount),
                ![i].cost = PyInt(accumulator[i].cost.i + cost)]
        ELSE Append(accumulator,
                    GeoEnergyUsage(time_period, energy_type, PyInt(amount), PyInt(cost)))

RECURSIVE _parse_historic_commodity_totals(_, _, _)
_parse_historic_commodity_totals(time_period, commodity_totals, accumulator) ==
    IF commodity_totals = <<>> THEN accumulator
    ELSE _parse_historic_commodity_totals(
            time_period, Tail(commodity_totals),
            HistoricCommodityTotal(time_period, Head(commodity_totals), accumulator))

\* the loop over usage_payload["totalsList"] of get_historic_usage
RECURSIVE ParseTotalsList(_, _, _)
ParseTotalsList(time_period, totals_list, rtn) ==
    IF totals_list = <<>> THEN rtn
    ELSE LET period_total == Head(totals_list) IN
         ParseTotalsList(
            time_period, Tail(totals_list),
            IF "commodityTotalsList" \in DOMAIN period_total
            THEN _parse_historic_commodity_totals(
                    time_period, period_total.commodityTotalsList, rtn)
            ELSE rtn)

\* mutant: get_usage keeps searching, so the last entry of the period is
\* returned
get_usage_last_match(self, period) ==
    LET matches == {k \in 1..Len(self.usage) : self.usage[k].period = period}
    IN  IF matches = {} THEN PyNone
        ELSE self.usage[CHOOSE k \in matches : \A j \in matches : j <= k]

\* GeoPeriodicEnergyUsage.get_usage: the first entry of the period, else None
get_usage(self, period) ==
    LET matches == {k \in 1..Len(self.usage) : self.usage[k].period = period}
    IN  IF matches = {} THEN PyNone
        ELSE self.usage[CHOOSE k \in matches : \A j \in matches : k <= j]

\* mutant: the usage of a later section replaces what the object holds
AddPeriodic_replace(accumulator, energy_type, usage) ==
    LET i == IndexOf(accumulator, energy_type)
    IN  IF i # 0
        THEN [accumulator EXCEPT ![i].usage = usage]
        ELSE Append(accumulator, GeoPeriodicEnergyUsage(energy_type, usage))

\* GeoPeriodicEnergyUsage.__add__ for the value stored under energy_type,
\* or the insertion of a new value: the shared tail of the three periodic
\* parsers
AddPeriodic(accumulator, energy_type, usage) ==
    LET i == IndexOf(accumulator, energy_type)
    IN  IF i # 0
        THEN [accumulator EXCEPT ![i].usage = @ \o usage]
        ELSE Append(accumulator, GeoPeriodicEnergyUsage(energy_type, usage))

_parse_current_costs(energy_type, current_costs, accumulator) ==
    AddPeriodic(accumulator, energy_type,
        [k \in 1..Len(current_costs) |->
            GeoEnergyUsage(current_costs[k].duration, energy_type,
                           PyInt(current_costs[k].energyAmount),
                           PyInt(current_costs[k].costAmount))])

RECURSIVE _parse_bill_to_date(_, _)
_parse_bill_to_date(bill_to_date, accumulator) ==
    IF bill_to_date = <<>> THEN accumulator
    ELSE LET unbilled == Head(bill_to_date)
             energy_type == unbilled.commodityType
         IN  _parse_bill_to_date(
                Tail(bill_to_date),
                AddPeriodic(accumulator, energy_type,
                    <<GeoEnergyUsage("UNBILLED", energy_type, PyNone,
                                     PyInt(unbilled.billToDate))>>))

RECURSIVE _parse_total_consumption(_, _)
_parse_total_consumption(total_consumption, accumulator) ==
    IF total_consumption = <<>> THEN accumulator
    ELSE LET consumption == Head(total_consumption)
             energy_type == consumption.commodityType
         IN  _parse_total_consumption(
                Tail(total_consumption),
                AddPeriodic(accumulator, energy_type,
                    <<GeoEnergyUsage("FOREVER", energy_type,
                                     PyInt(consumption.totalConsumption), PyNone)>>))

\* the 200 branch of get_periodic_usage: the four sections in code order
ParsePeriodic(usage_payload) ==
    LET r1 == IF "totalConsumptionList" \in DOMAIN usage_payload
              THEN _parse_total_consumption(usage_payload.totalConsumptionList, <<>>)
              ELSE <<>>
        r2 == IF "billToDateList" \in DOMAIN usage_payload
              THEN _parse_bill_to_date(usage_payload.billToDateList, r1)
              ELSE r1
        r3 == IF "currentCostsElec" \in DOMAIN usage_payload
              THEN _parse_current_costs("ELECTRICITY", usage_payload.currentCostsElec, r2)
              ELSE r2
    IN  IF "currentCostsGas" \in DOMAIN usage_payload
        THEN _parse_current_costs("GAS_ENERGY", usage_payload.currentCostsGas, r3)
        ELSE r3

(***************************************************************************)
(* The data-fetching operations.                                           *)
(***************************************************************************)
\* a call that raised before any request was made: nothing is assigned
RaisedEarly(c, op, args, error) ==
    /\ last' = Call(c, op, args, NoResponse, <<>>, error, PyNone)
    /\ UNCHANGED <<system_id, headers, fixed>>

\* del self._client_session.headers["Authorization"]
DelAuthorization(c) == [headers EXCEPT ![client_session[c]] = NoHeader]

StatusError(status) ==
    GeoTogetherError(<<"The Geo Together API call failed with status ", status>>)

get_live_usage(c, resp) ==
    LET op == "get_live_usage"
        pre == _check_prerequisits(c)
        uri == <<"api/userapi/system/smets2-live-data/", system_id[c]>>
        req == Request(c, "GET", _build_url(uri), <<>>)
    IN  IF pre # NoError THEN RaisedEarly(c, op, EmptyObj, pre)
        ELSE IF resp.kind = "Cancelled" THEN Interrupted(c, op, EmptyObj, req)
        ELSE /\ UNCHANGED <<system_id, fixed>>
             /\ IF resp.kind = "ClientError"
                THEN /\ headers' = headers
                     /\ last' = Call(c, op, EmptyObj, resp, <<req>>,
                                     GeoTogetherError(<<"Connectivity Error">>), PyNone)
                ELSE IF resp.status = 200
                THEN /\ headers' = headers
                     /\ last' = Call(c, op, EmptyObj, resp, <<req>>, NoError,
                            PyList(IF /\ "power" \in DOMAIN resp.body
                                      /\ resp.body.power # <<>>
                                   THEN [k \in 1..Len(resp.body.power) |->
                                            GeoLivePowerUsage(resp.body.power[k])]
                                   ELSE <<>>))
                ELSE IF resp.status = 401
                THEN /\ headers' = DelAuthorization(c)
                     /\ last' = Call(c, op, EmptyObj, resp, <<req>>,
                            GeoTogetherAuthenticationError(<<"Authentication has expired">>),
                            PyNone)
                ELSE /\ headers' = headers
                     /\ last' = Call(c, op, EmptyObj, resp, <<req>>,
                                     StatusError(resp.status), PyNone)

get_periodic_usage(c, resp) ==
    LET op == "get_periodic_usage"
        pre == _check_prerequisits(c)
        uri == <<"api/userapi/system/smets2-periodic-data/", system_id[c]>>
        req == Request(c, "GET", _build_url(uri), <<>>)
    IN  IF pre # NoError THEN RaisedEarly(c, op, EmptyObj, pre)
        ELSE IF resp.kind = "Cancelled" THEN Interrupted(c, op, EmptyObj, req)
        ELSE /\ UNCHANGED <<system_id, fixed>>
             /\ IF resp.kind = "ClientError"
                THEN /\ headers' = headers
                     /\ last' = Call(c, op, EmptyObj, resp, <<req>>,
                                     GeoTogetherError(<<"Connectivity Error">>), PyNone)
                ELSE IF resp.status = 200
                THEN /\ headers' = headers
                     /\ last' = Call(c, op, EmptyObj, resp, <<req>>, NoError,
                                     PyList(ParsePeriodic(resp.body)))
                ELSE IF resp.status = 401
                THEN /\ headers' = DelAuthorization(c)
                     /\ last' = Call(c, op, EmptyObj, resp, <<req>>,
                            GeoTogetherAuthenticationError(<<"Authentication has expired">>),
                            PyNone)
                ELSE /\ headers' = headers
                     /\ last' = Call(c, op, EmptyObj, resp, <<req>>,
                                     StatusError(resp.status), PyNone)

\* the endpoint variant: MONTH is fetched from the day-granularity endpoint
HistoryType(time_period) ==
    CASE time_period = "MONTH" -> "day"
      [] time_period = "DAY" -> "day"
      [] time_period = "WEEK" -> "week"
      [] time_period = "UNBILLED" -> "unbilled"
      [] time_period = "FOREVER" -> "forever"

\* mutant: FOREVER is let through
IsUndated_unbilled_only(time_period) == time_period = "UNBILLED"

\* the periods get_historic_usage refuses: they have no date range
IsUndated(time_period) == time_period \in {"UNBILLED", "FOREVER"}

\* what None.isoformat() raises, were a period without dates to be resolved
AttributeError == [cls |-> "AttributeError", msg |-> <<"isoformat">>]

\* mutant: the offset is used as given
NegatedIfPositive_as_given(offset) == offset

\* if offset > 0: offset *= -1
NegatedIfPositive(offset) == IF offset > 0 THEN offset * (-1) ELSE offset

\* mutant: the start date is the date of the call
resolve_default_at_call(self, offset) == resolve(self, offset, today)

\* time_period.resolve(offset): start_date takes its default, the value
\* date.today() had when the def statement of resolve was executed
resolve_default(self, offset) == resolve(self, offset, default_start_date)

get_historic_usage(c, time_period, offset, resp) ==
    LET op == "get_historic_usage"
        args == [time_period |-> time_period, offset |-> offset]
        pre == _check_prerequisits(c)
        offset1 == NegatedIfPositive(offset)
        time_period_dates == resolve_default(time_period, offset1)
        history_type == HistoryType(time_period)
        uri == <<"api/userapi/system/smets2-historic-", history_type, "/",
                 system_id[c],
                 "?from=", IsoFormat(time_period_dates[1]),
                 "&to=", IsoFormat(time_period_dates[2])>>
        req == Request(c, "GET", _build_url(uri), <<>>)
    IN  IF pre # NoError THEN RaisedEarly(c, op, args, pre)
        ELSE IF IsUndated(time_period)
        THEN RaisedEarly(c, op, args,
                GeoTogetherError(<<"Cannot get historic usage for ",
                                   TimePeriodValue(time_period),
                                   ",use get_periodic_usage instead">>))
        ELSE IF time_period_dates[1] = NoDate
        THEN RaisedEarly(c, op, args, AttributeError)
        ELSE IF resp.kind = "Cancelled" THEN Interrupted(c, op, args, req)
        ELSE /\ UNCHANGED <<system_id, headers, fixed>>
             /\ IF resp.kind = "ClientError"
                THEN last' = Call(c, op, args, resp, <<req>>,
                                  GeoTogetherError(<<"Connectivity Error">>), PyNone)
                ELSE last' = Call(c, op, args, resp, <<req>>, NoError,
                        PyList(IF /\ resp.status = 200
                                  /\ "totalsList" \in DOMAIN resp.body
                               THEN ParseTotalsList(time_period, resp.body.totalsList, <<>>)
                               ELSE <<>>))

(***************************************************************************)
(* What the vendor API may answer (spec section 6 gives the shapes).       *)
(***************************************************************************)
\* the outcomes of one request whose 200 body is drawn from bodies
Responses(bodies) ==
    {TransportError}
        \cup {Http(status, EmptyObj) : status \in Statuses \ {200}}
        \cup {Http(200, body) : body \in bodies}

LoginBodies == {EmptyObj} \cup {[accessToken |-> token] : token \in Tokens}

SystemIds == {"A", "B"}
SystemNames == {"Home", "Away"}
\* the name argument of resolve_system: None, the empty string, a name
NameArgs == {PyNone, PyStr("")} \cup {PyStr(n) : n \in SystemNames}

\* an entry of systemDetails: systemId and name are each optional
SystemEntries ==
    {[systemId |-> i, name |-> n] : i \in SystemIds, n \in SystemNames}
        \cup {[systemId |-> i] : i \in SystemIds}
        \cup {[name |-> n] : n \in SystemNames}
        \cup {EmptyObj}

\* the sequences over S of length at most n
RECURSIVE SeqUpTo(_, _)
SeqUpTo(S, n) ==
    IF n = 0 THEN {<<>>}
    ELSE LET shorter == SeqUpTo(S, n - 1)
         IN  shorter \cup {Append(q, x) : q \in {r \in shorter : Len(r) = n - 1}, x \in S}

SystemsBodies ==
    {EmptyObj} \cup {[systemDetails |-> l] : l \in SeqUpTo(SystemEntries, MaxSystems)}

\* the two listings the session machine is exercised with: the one of spec
\* section 8 and one without a system named Home
SessionSystemsBodies ==
    {EmptyObj,
     [systemDetails |-> <<>>],
     [systemDetails |-> <<[name |-> "Home", systemId |-> "A"],
                          [name |-> "Away", systemId |-> "B"]>>],
     [systemDetails |-> <<[name |-> "Away", systemId |-> "B"]>>]}

LiveBodies ==
    {EmptyObj,
     [power |-> <<>>],
     [power |-> <<[type |-> "ELECTRICITY", watts |-> 250],
                  [type |-> "GAS_ENERGY", watts |-> 0]>>]}

SessionPeriodicBodies ==
    {EmptyObj,
     [totalConsumptionList |-> <<[commodityType |-> "ELECTRICITY", totalConsumption |-> 7]>>,
      billToDateList |-> <<[commodityType |-> "ELECTRICITY", billToDate |-> 9]>>,
      currentCostsElec |-> <<[duration |-> "DAY", energyAmount |-> 2, costAmount |-> 3]>>,
      currentCostsGas |-> <<[duration |-> "WEEK", energyAmount |-> 4, costAmount |-> 5]>>]}

\* the lists of a section whose entries name a commodity: an entry carries
\* its position as its value, so that two entries of a list are told apart
CommodityLists(field, n) ==
    {[k \in 1..Len(ts) |-> ("commodityType" :> ts[k]) @@ (field :> k)]
        : ts \in SeqUpTo(GeoEnergyType, n)}

\* the duration values of the current-cost sections
CostDurations == {"DAY", "FOREVER"}

\* the lists of a current-cost section
CurrentCostsLists(n) ==
    {[k \in 1..Len(ds) |-> [duration |-> ds[k], energyAmount |-> k, costAmount |-> 2 * k]]
        : ds \in SeqUpTo(CostDurations, n)}

\* a section of the periodic payload: absent, or one of lists under key
Section(key, lists) == {EmptyObj} \cup {key :> l : l \in lists}

SectionLen(section, key) == IF key \in DOMAIN section THEN Len(section[key]) ELSE 0

\* the periodic payloads of at most n entries in all, each of the four
\* sections present or absent
PeriodicPayloads(n) ==
    UNION {UNION {UNION {
        {a @@ b @@ e @@ g :
            g \in Section("currentCostsGas",
                    CurrentCostsLists(n - SectionLen(a, "totalConsumptionList")
                                        - SectionLen(b, "billToDateList")
                                        - SectionLen(e, "currentCostsElec")))}
        : e \in Section("currentCostsElec",
                    CurrentCostsLists(n - SectionLen(a, "totalConsumptionList")
                                        - SectionLen(b, "billToDateList")))}
        : b \in Section("billToDateList",
                    CommodityLists("billToDate", n - SectionLen(a, "totalConsumptionList")))}
        : a \in Section("totalConsumptionList", CommodityLists("totalConsumption", n))}

PeriodicBodies == PeriodicPayloads(MaxPeriodicEntries)

\* a commodity total: commodityType, and optionally energyKWh and costPence
CommodityTotals ==
    {[commodityType |-> t, energyKWh |-> 2, costPence |-> 3] : t \in GeoEnergyType}
        \cup {[commodityType |-> t, energyKWh |-> 3] : t \in GeoEnergyType}
        \cup {[commodityType |-> t, costPence |-> 5] : t \in GeoEnergyType}
        \cup {[commodityType |-> t] : t \in GeoEnergyType}

\* a sub-period of totalsList holding at most n commodity totals; its
\* commodityTotalsList may be missing
PeriodTotals(n) ==
    {EmptyObj} \cup {[commodityTotalsList |-> l] : l \in SeqUpTo(CommodityTotals, n)}

NumEntries(period_total) ==
    IF "commodityTotalsList" \in DOMAIN period_total
    THEN Len(period_total.commodityTotalsList) ELSE 0

\* the totalsLists of at most k sub-periods and n commodity totals in all
RECURSIVE TotalsLists(_, _)
TotalsLists(k, n) ==
    IF k = 0 THEN {<<>>}
    ELSE {<<>>} \cup
         UNION {{<<pt>> \o rest : rest \in TotalsLists(k - 1, n - NumEntries(pt))}
                    : pt \in PeriodTotals(n)}

HistoricBodies ==
    {EmptyObj} \cup {[totalsList |-> l] : l \in TotalsLists(MaxSubPeriods, MaxEntries)}

SessionHistoricBodies ==
    {EmptyObj,
     [totalsList |-> <<[commodityTotalsList |->
                            <<[commodityType |-> "ELECTRICITY", energyKWh |-> 3]>>],
                       [commodityTotalsList |->
                            <<[commodityType |-> "ELECTRICITY", energyKWh |-> 2]>>]>>]}

Offsets == (0 - MaxOffset)..MaxOffset

\* dates the module may be imported on: a leap day and a year's last day
ImportDates == {<<2024, 2, 29>>, <<2025, 12, 31>>}

(***************************************************************************)
(* The calls a program makes: a caller picks a client and arguments, the   *)
(* vendor API answers the request, if one is made.                         *)
(***************************************************************************)
Authenticate(callers, responses) ==
    /\ \E c \in callers, resp \in responses : authenticate(c, resp)
    /\ UNCHANGED server

ResolveSystem(callers, names, responses) ==
    /\ \E c \in callers, name \in names, resp \in responses : resolve_system(c, name, resp)
    /\ UNCHANGED server

GetLiveUsage(callers, responses) ==
    /\ \E c \in callers, resp \in responses : get_live_usage(c, resp)
    /\ UNCHANGED server

GetPeriodicUsage(callers, responses) ==
    /\ \E c \in callers, resp \in responses : get_periodic_usage(c, resp)
    /\ UNCHANGED server

GetHistoricUsage(callers, periods, offsets, responses) ==
    /\ \E c \in callers, time_period \in periods, offset \in offsets, resp \in responses :
            get_historic_usage(c, time_period, offset, resp)
    /\ UNCHANGED server

(***************************************************************************)
(* Spec: the session state machine of one client, constructed with its own *)
(* session or an injected one, under every answer of the vendor API.       *)
(***************************************************************************)
OneCaller == {"c1"}

Init ==
    /\ ClientInit(OneCaller)
    /\ default_start_date \in ImportDates
    /\ today = default_start_date
    /\ server = NoResponse

LoginResponses == Responses(LoginBodies)
SystemsResponses == Responses(SessionSystemsBodies)
LiveResponses == Responses(LiveBodies)
PeriodicResponses == Responses(SessionPeriodicBodies)
HistoricResponses == Responses(SessionHistoricBodies)

Next ==
    \/ Authenticate(OneCaller, LoginResponses)
    \/ ResolveSystem(OneCaller, NameArgs, SystemsResponses)
    \/ GetLiveUsage(OneCaller, LiveResponses)
    \/ GetPeriodicUsage(OneCaller, PeriodicResponses)
    \/ GetHistoricUsage(OneCaller, GeoTimePeriod, Offsets, HistoricResponses)

Spec == Init /\ [][Next]_vars

(***************************************************************************)
(* SpecClients: two clients of one program, each constructed with its own  *)
(* session or with the session the caller injected, calling in any order.  *)
(***************************************************************************)
\* the outcomes of a request whose 200 body carries nothing
BareResponses == Responses({EmptyObj})
NoNameArg == {PyNone}
DayPeriod == {"DAY"}
ZeroOffset == {0}

NextClients ==
    \/ Authenticate(Clients, LoginResponses)
    \/ ResolveSystem(Clients, NoNameArg, SystemsResponses)
    \/ GetLiveUsage(Clients, BareResponses)
    \/ GetPeriodicUsage(Clients, BareResponses)
    \/ GetHistoricUsage(Clients, DayPeriod, ZeroOffset, BareResponses)

InitClients ==
    /\ ClientInit(Clients)
    /\ default_start_date \in ImportDates
    /\ today = default_start_date
    /\ server = NoResponse

SpecClients == InitClients /\ [][NextClients]_vars

(***************************************************************************)
(* SpecSystems: the vendor API's answer to detail-systems is drawn from    *)
(* every listing within the bounds; the client resolves against it, under  *)
(* any name, as often as the caller likes.                                 *)
(***************************************************************************)
ListingResponses == Responses(SystemsBodies)

InitSystems ==
    /\ ClientInit({})
    /\ default_start_date = <<2024, 2, 29>>
    /\ today = default_start_date
    /\ server \in ListingResponses

\* resolve_system, answered with the drawn response
ResolveSystemServed ==
    /\ \E c \in OneCaller, name \in NameArgs : resolve_system(c, name, server)
    /\ UNCHANGED server

NextSystems == ResolveSystemServed

SpecSystems == InitSystems /\ [][NextSystems]_vars

(***************************************************************************)
(* SpecHistoric: the vendor API's answer to the historic request is drawn  *)
(* from every totalsList within the bounds; a client that has              *)
(* authenticated (token t1) and resolved its system (A), a state Spec      *)
(* reaches in two calls, fetches the historic usage of a dated period.     *)
(***************************************************************************)
TotalsResponses == {Http(200, body) : body \in HistoricBodies}
DatedPeriods == {"DAY", "WEEK", "MONTH"}

InitHistoric ==
    /\ owns_client_session = [c \in Clients |-> TRUE]
    /\ client_session = [c \in Clients |-> OwnSession(c)]
    /\ system_id = [c \in Clients |-> IF c \in OneCaller THEN PyStr("A") ELSE PyNone]
    /\ headers = [s \in Sessions |->
            IF \E c \in OneCaller : s = OwnSession(c) THEN Bearer("t1") ELSE NoHeader]
    /\ closed = [s \in Sessions |-> FALSE]
    /\ last = NoCall
    /\ default_start_date = <<2024, 2, 29>>
    /\ today = default_start_date
    /\ server \in TotalsResponses

\* get_historic_usage of a dated period, answered with the drawn response
GetHistoricUsageServed ==
    /\ \E c \in OneCaller, time_period \in DatedPeriods :
            get_historic_usage(c, time_period, 0, server)
    /\ UNCHANGED server

NextHistoric == GetHistoricUsageServed

SpecHistoric == InitHistoric /\ [][NextHistoric]_vars

(***************************************************************************)
(* SpecPeriodic: the vendor API's answer to the periodic request is drawn  *)
(* from every payload within the bounds; an authenticated client with a    *)
(* resolved system fetches the periodic usage and looks periods up in the  *)
(* objects it was given, as cli.py does.                                   *)
(***************************************************************************)
UsageResponses == {Http(200, body) : body \in PeriodicBodies}

InitPeriodic ==
    /\ owns_client_session = [c \in Clients |-> TRUE]
    /\ client_session = [c \in Clients |-> OwnSession(c)]
    /\ system_id = [c \in Clients |-> IF c \in OneCaller THEN PyStr("A") ELSE PyNone]
    /\ headers = [s \in Sessions |->
            IF \E c \in OneCaller : s = OwnSession(c) THEN Bearer("t1") ELSE NoHeader]
    /\ closed = [s \in Sessions |-> FALSE]
    /\ last = NoCall
    /\ default_start_date = <<2024, 2, 29>>
    /\ today = default_start_date
    /\ server \in UsageResponses

\* get_periodic_usage, answered with the drawn response
GetPeriodicUsageServed ==
    /\ \E c \in OneCaller : get_periodic_usage(c, server)
    /\ UNCHANGED server

\* periodic_usage.get_usage(period) on an object get_periodic_usage returned
GetUsage ==
    /\ last.op = "get_periodic_usage"
    /\ last.raised = NoError
    /\ \E i \in 1..Len(last.ret.l), period \in GeoTimePeriod :
            last' = Call(last.client, "get_usage",
                         [self |-> last.ret.l[i], period |-> period],
                         NoResponse, <<>>, NoError, get_usage(last.ret.l[i], period))
    /\ UNCHANGED <<system_id, headers, fixed, server>>

NextPeriodic ==
    \/ GetPeriodicUsageServed
    \/ GetUsage

SpecPeriodic == InitPeriodic /\ [][NextPeriodic]_vars

(***************************************************************************)
(* SpecDates: GeoTimePeriod.resolve called directly, on every period, with *)
(* every offset within the bound and a reference date drawn from the days  *)
(* around a year's end, around the end of February in leap and common      *)
(* years, and from the ends of long and short months.                      *)
(***************************************************************************)
\* the n days from d on
DateRange(d, n) == {AddDays(d, k) : k \in 0..(n - 1)}

RefDates ==
    DateRange(<<2023, 12, 25>>, 14)
        \cup DateRange(<<2024, 2, 26>>, 5)
        \cup DateRange(<<2023, 2, 26>>, 4)
        \cup {<<2024, 1, 29>>, <<2024, 1, 30>>, <<2024, 1, 31>>, <<2024, 3, 13>>,
              <<2024, 3, 31>>, <<2024, 4, 15>>, <<2024, 5, 31>>, <<2024, 8, 31>>,
              <<2024, 12, 31>>, <<2000, 2, 29>>, <<1900, 2, 28>>, <<2100, 3, 1>>}

ResolveOffsets == (0 - MaxResolveOffset)..MaxResolveOffset

InitDates ==
    /\ ClientInit({})
    /\ default_start_date = <<2024, 2, 29>>
    /\ today = default_start_date
    /\ server = NoResponse

\* time_period.resolve(offset, start_date), called once
Resolve ==
    /\ last = NoCall
    /\ \E time_period \in GeoTimePeriod, offset \in ResolveOffsets, start_date \in RefDates :
            last' = Call("none", "resolve",
                         [self |-> time_period, offset |-> offset, start_date |-> start_date],
                         NoResponse, <<>>, NoError,
                         PyTuple(resolve(time_period, offset, start_date)))
    /\ UNCHANGED <<system_id, headers, fixed, server>>

NextDates == Resolve

SpecDates == InitDates /\ [][NextDates]_vars

(***************************************************************************)
(* SpecHandle: the client used as cli.handle uses it, inside one           *)
(* `async with`: authenticate; if that succeeded resolve_system; if that   *)
(* succeeded one data-fetching operation chosen by the mode (none for an   *)
(* unknown mode); then __aexit__, with the exception the body raised, if   *)
(* any.  The position of handle is read off the last call made.  Every     *)
(* awaited call completes, so handle keeps taking steps until it has left  *)
(* the `async with`.                                                       *)
(***************************************************************************)
InitHandle ==
    /\ ClientInit(OneCaller)
    /\ default_start_date = <<2024, 2, 29>>
    /\ today = default_start_date
    /\ server = NoResponse

\* async with GeoTogetherClient(...) as client: if await client.authenticate():
HandleAuthenticate ==
    /\ last = NoCall
    /\ Authenticate(OneCaller, LoginResponses)

\* if await client.resolve_system(system):
HandleResolveSystem ==
    /\ last.op = "authenticate"
    /\ Truthy(last.ret)
    /\ ResolveSystem(OneCaller, NameArgs, SystemsResponses)

\* handle has a truthy resolve_system result and dispatches on the mode
HandleAtMode == last.op = "resolve_system" /\ Truthy(last.ret)

HandleLive ==
    /\ HandleAtMode
    /\ GetLiveUsage(OneCaller, LiveResponses)

HandlePeriodic ==
    /\ HandleAtMode
    /\ GetPeriodicUsage(OneCaller, PeriodicResponses)

HandleHistoric ==
    /\ HandleAtMode
    /\ GetHistoricUsage(OneCaller, GeoTimePeriod, Offsets, HistoricResponses)

\* the body of the `async with` is left: a falsy authenticate or
\* resolve_system, an unknown mode, or a data-fetching call that returned
\* or raised
HandleExit ==
    /\ \/ last.op = "authenticate" /\ ~Truthy(last.ret)
       \/ last.op = "resolve_system"
       \/ last.op \in {"get_live_usage", "get_periodic_usage", "get_historic_usage"}
    /\ \E c \in OneCaller : __aexit__(c, last.raised)
    /\ UNCHANGED server

NextHandle ==
    \/ HandleAuthenticate
    \/ HandleResolveSystem
    \/ HandleLive
    \/ HandlePeriodic
    \/ HandleHistoric
    \/ HandleExit

SpecHandle == InitHandle /\ [][NextHandle]_vars /\ WF_vars(NextHandle)

(***************************************************************************)
(* SpecCancel: the session state machine of Spec where, besides being      *)
(* answered or failing in the transport, the request of any call may be    *)
(* cancelled while in flight.                                              *)
(***************************************************************************)
Cancellations == {Cancelled}
LoginOutcomes == LoginResponses \cup Cancellations
SystemsOutcomes == SystemsResponses \cup Cancellations
LiveOutcomes == LiveResponses \cup Cancellations
PeriodicOutcomes == PeriodicResponses \cup Cancellations
HistoricOutcomes == HistoricResponses \cup Cancellations

NextCancel ==
    \/ Authenticate(OneCaller, LoginOutcomes)
    \/ ResolveSystem(OneCaller, NameArgs, SystemsOutcomes)
    \/ GetLiveUsage(OneCaller, LiveOutcomes)
    \/ GetPeriodicUsage(OneCaller, PeriodicOutcomes)
    \/ GetHistoricUsage(OneCaller, GeoTimePeriod, Offsets, HistoricOutcomes)

SpecCancel == Init /\ [][NextCancel]_vars

(***************************************************************************)
(* SpecClock: a client that has authenticated (token t1) and resolved its  *)
(* system (A) fetches historic usage in a process that keeps running while *)
(* days pass: date.today() moves on, the module stays loaded.              *)
(***************************************************************************)
\* midnight: date.today() moves to the next day
DayPasses ==
    /\ ToOrdinal(today) < ToOrdinal(default_start_date) + MaxDaysPassed
    /\ today' = AddDays(today, 1)
    /\ UNCHANGED <<system_id, client_session, owns_client_session, headers, closed,
                   default_start_date, last, server>>

InitClock ==
    /\ owns_client_session = [c \in Clients |-> TRUE]
    /\ client_session = [c \in Clients |-> OwnSession(c)]
    /\ system_id = [c \in Clients |-> IF c \in OneCaller THEN PyStr("A") ELSE PyNone]
    /\ headers = [s \in Sessions |->
            IF \E c \in OneCaller : s = OwnSession(c) THEN Bearer("t1") ELSE NoHeader]
    /\ closed = [s \in Sessions |-> FALSE]
    /\ last = NoCall
    /\ default_start_date \in ImportDates
    /\ today = default_start_date
    /\ server = NoResponse

NextClock ==
    \/ GetHistoricUsage(OneCaller, GeoTimePeriod, Offsets, HistoricResponses)
    \/ DayPasses

SpecClock == InitClock /\ [][NextClock]_vars

(***************************************************************************)
(* Vocabulary of the properties.                                           *)
(***************************************************************************)
DataOps == {"get_live_usage", "get_periodic_usage", "get_historic_usage"}

Called == last.op # "none"
\* the Authorization header the calling client's session held before the call
PreHeader == last.pre_headers[client_session[last.client]]
\* the calling client's system id before the call
PreSystem == last.pre_system_id[last.client]
\* the header and the system id of the calling client now
NowHeader == headers[client_session[last.client]]
NowSystem == system_id[last.client]

Answered(status) == last.resp.kind = "http" /\ last.resp.status = status
Raised(cls) == last.raised.cls = cls
Returned == last.raised = NoError

(***************************************************************************)
(* Properties.                                                             *)
(***************************************************************************)

\* C1: a data-fetching call made while no bearer token is held fails with
\* GeoTogetherAuthenticationError, whether or not a system is resolved; one
\* made while a token is held but no system id is resolved fails with
\* GeoTogetherSystemError; in both cases no HTTP request is issued.
C1_PrerequisitesGate ==
    (Called /\ last.op \in DataOps) =>
        /\ PreHeader = NoHeader =>
                Raised("GeoTogetherAuthenticationError") /\ last.requests = <<>>
        /\ (PreHeader # NoHeader /\ ~Truthy(PreSystem)) =>
                Raised("GeoTogetherSystemError") /\ last.requests = <<>>

\* a data call refused for want of a token although a system was resolved
C1_Witness ==
    /\ Called /\ last.op \in DataOps
    /\ PreHeader = NoHeader /\ Truthy(PreSystem)
    /\ Raised("GeoTogetherAuthenticationError") /\ last.requests = <<>>

\* a data call refused for want of a system although a token was held
C1_WitnessSystem ==
    /\ Called /\ last.op \in DataOps
    /\ PreHeader # NoHeader /\ ~Truthy(PreSystem)
    /\ Raised("GeoTogetherSystemError") /\ last.requests = <<>>

\* C2: a 401 on a data-fetching call of an authenticated, system-resolved
\* client clears the held token and fails the call with
\* GeoTogetherAuthenticationError, and a data-fetching call that follows it
\* directly (so with no authenticate in between) fails with
\* GeoTogetherAuthenticationError and issues no HTTP request.
C2_Expired401 ==
    [][(/\ Called /\ last.op \in DataOps /\ Answered(401)
        /\ last'.op \in DataOps /\ last' # last)
       => /\ Raised("GeoTogetherAuthenticationError")
          /\ NowHeader = NoHeader
          /\ last'.raised.cls = "GeoTogetherAuthenticationError"
          /\ last'.requests = <<>>]_vars

\* C3: a data-fetching call answered with a status that is neither 200 nor
\* 401 fails with GeoTogetherError carrying that status, and returns nothing.
C3_OtherStatusFails ==
    (/\ Called /\ last.op \in DataOps
     /\ last.resp.kind = "http" /\ last.resp.status \notin {200, 401})
    => /\ last.raised = StatusError(last.resp.status)
       /\ last.ret = PyNone

\* C6: get_historic_usage of UNBILLED or FOREVER, for any offset, fails with
\* a GeoTogetherError, issues no HTTP request and leaves the held token and
\* the system id as they were.
C6_UndatedPeriodsRejected ==
    (/\ Called /\ last.op = "get_historic_usage"
     /\ last.args.time_period \in {"UNBILLED", "FOREVER"})
    => /\ IsInstance(last.raised, "GeoTogetherError")
       /\ last.requests = <<>>
       /\ headers = last.pre_headers
       /\ system_id = last.pre_system_id

\* FOREVER with a non-zero offset, refused by the period check itself
C6_Witness ==
    /\ Called /\ last.op = "get_historic_usage"
    /\ last.args.time_period = "FOREVER" /\ last.args.offset # 0
    /\ PreHeader # NoHeader /\ Truthy(PreSystem)
    /\ Raised("GeoTogetherError") /\ last.requests = <<>>

\* whether the listing of a detail-systems response holds a system for name
ListsMatch(resp, name) ==
    /\ resp.kind = "http" /\ resp.status = 200
    /\ "systemDetails" \in DOMAIN resp.body
    /\ \E i \in 1..Len(resp.body.systemDetails) :
            LET system == resp.body.systemDetails[i] IN
            /\ "systemId" \in DOMAIN system /\ "name" \in DOMAIN system
            /\ (Truthy(name) => system.name = name.s)

\* C7: resolve_system returns a falsy value whenever the call finds no
\* matching system in a 200 response (no listed system has the given name,
\* or the list is empty or missing) or the request fails in the transport.
C7_NoMatchIsFalsy ==
    (/\ Called /\ last.op = "resolve_system"
     /\ \/ last.resp.kind = "ClientError"
        \/ Answered(200) /\ ~ListsMatch(last.resp, last.args.name))
    => ~Truthy(last.ret)

\* C9: authenticate returns true exactly when the login response has status
\* 200 and carries accessToken, and then Bearer <that token> is the header
\* the session holds and sends with the next request; on every other
\* outcome it returns false; it never raises.
C9_AuthenticateOutcome ==
    [][/\ (last'.op = "authenticate") =>
            LET ok == /\ last'.resp.kind = "http" /\ last'.resp.status = 200
                      /\ "accessToken" \in DOMAIN last'.resp.body
            IN  /\ last'.raised = NoError
                /\ last'.ret = PyBool(ok)
                /\ ok => headers'[client_session[last'.client]]
                            = Bearer(last'.resp.body.accessToken)
       /\ (/\ Called /\ last.op = "authenticate" /\ last.ret = PyBool(TRUE)
           /\ last' # last /\ last'.requests # <<>>)
          => last'.requests[1].authorization = Bearer(last.resp.body.accessToken)]_vars

\* a data request sent with the token of the authenticate just before it
C9_Witness ==
    /\ Called /\ last.op \in DataOps /\ last.requests # <<>>
    /\ last.requests[1].authorization = Bearer("t2")
    /\ Returned

(***************************************************************************)
(* Properties of resolve_system's choice, under SpecSystems.               *)
(***************************************************************************)
\* the systemDetails list of the last response, <<>> when it has none
Listed ==
    IF Answered(200) /\ "systemDetails" \in DOMAIN last.resp.body
    THEN last.resp.body.systemDetails ELSE <<>>

\* the listed system at position i carries both keys and passes the name
\* test: any system when the name is None or empty, else equality
Eligible(i) ==
    /\ "systemId" \in DOMAIN Listed[i] /\ "name" \in DOMAIN Listed[i]
    /\ (Truthy(last.args.name) => Listed[i].name = last.args.name.s)

RECURSIVE AllTotals(_)
AllTotals(totals_list) ==
    IF totals_list = <<>> THEN <<>>
    ELSE (IF "commodityTotalsList" \in DOMAIN Head(totals_list)
          THEN Head(totals_list).commodityTotalsList ELSE <<>>)
         \o AllTotals(Tail(totals_list))

\* the commodity totals the last response carries
Contributed ==
    IF Answered(200) /\ "totalsList" \in DOMAIN last.resp.body
    THEN AllTotals(last.resp.body.totalsList) ELSE <<>>

\* the positions of the commodity totals of energy_type that supply field
Suppliers(energy_type, field) ==
    {i \in 1..Len(Contributed) :
        Contributed[i].commodityType = energy_type /\ field \in DOMAIN Contributed[i]}

RECURSIVE SumOver(_, _)
\* the sum of field over the commodity totals at the positions of I
SumOver(I, field) ==
    IF I = {} THEN 0
    ELSE LET i == CHOOSE x \in I : TRUE
         IN  Contributed[i][field] + SumOver(I \ {i}, field)

HistoricReturned == Called /\ last.op = "get_historic_usage" /\ Returned /\ Answered(200)

\* C4: in the result of get_historic_usage the amount (the cost) of an
\* energy type is None exactly when no commodity total of that type, in any
\* sub-period, supplied energyKWh (costPence).
C4_AbsentWhenNeverSupplied ==
    HistoricReturned =>
        \A k \in 1..Len(last.ret.l) :
            LET usage == last.ret.l[k] IN
            /\ (usage.amount = PyNone) <=> (Suppliers(usage.type, "energyKWh") = {})
            /\ (usage.cost = PyNone) <=> (Suppliers(usage.type, "costPence") = {})

\* C5: on a 200 response get_historic_usage returns exactly one EnergyUsage
\* per energy type occurring in any commodityTotalsList, tagged with the
\* requested period, whose amount and cost are the sums of energyKWh and
\* costPence over all commodity totals of that type in the response.
C5_SummedPerType ==
    HistoricReturned =>
        LET rtn == last.ret.l IN
        /\ {rtn[k].type : k \in 1..Len(rtn)}
                = {Contributed[i].commodityType : i \in 1..Len(Contributed)}
        /\ \A k, m \in 1..Len(rtn) : rtn[k].type = rtn[m].type => k = m
        /\ \A k \in 1..Len(rtn) :
            /\ rtn[k].period = last.args.time_period
            /\ rtn[k].amount = PyInt(SumOver(Suppliers(rtn[k].type, "energyKWh"), "energyKWh"))
            /\ rtn[k].cost = PyInt(SumOver(Suppliers(rtn[k].type, "costPence"), "costPence"))

\* two sub-periods report 3 and 2 kWh of electricity; the result holds 5
C5_Witness ==
    /\ HistoricReturned
    /\ "totalsList" \in DOMAIN last.resp.body
    /\ Len(last.resp.body.totalsList) = 2
    /\ Contributed = <<[commodityType |-> "ELECTRICITY", energyKWh |-> 3],
                       [commodityType |-> "ELECTRICITY", energyKWh |-> 2, costPence |-> 3]>>
    /\ last.ret.l = <<GeoEnergyUsage(last.args.time_period, "ELECTRICITY", PyInt(5), PyInt(3))>>

(***************************************************************************)
(* Property of two clients, under SpecClients.                             *)
(***************************************************************************)
\* C10: a call on one client never changes whether another client holds a
\* token, nor the system id another client has resolved, however the two
\* were constructed.
C10_ClientsIsolated ==
    Called =>
        \A d \in Clients \ {last.client} :
            /\ (headers[client_session[d]] = NoHeader)
                    <=> (last.pre_headers[client_session[d]] = NoHeader)
            /\ system_id[d] = last.pre_system_id[d]

(***************************************************************************)
(* Periodic usage: what the payload of the drawn response contributes to   *)
(* each energy type, section by section in the order the code reads them.  *)
(***************************************************************************)
\* the list under key in the payload, empty when the section is absent
PayloadSection(key) ==
    IF key \in DOMAIN server.body THEN server.body[key] ELSE <<>>

\* the entries of a commodity section that name energy_type, in list order
OfType(section, energy_type) ==
    LET Names(entry) == entry.commodityType = energy_type
    IN  SelectSeq(section, Names)

CostsKey(energy_type) ==
    IF energy_type = "ELECTRICITY" THEN "currentCostsElec" ELSE "currentCostsGas"

\* the EnergyUsage entries the payload contributes to energy_type
ContributedTo(energy_type) ==
    LET total == OfType(PayloadSection("totalConsumptionList"), energy_type)
        bill == OfType(PayloadSection("billToDateList"), energy_type)
        costs == PayloadSection(CostsKey(energy_type))
    IN  [k \in 1..Len(total) |->
            GeoEnergyUsage("FOREVER", energy_type, PyInt(total[k].totalConsumption), PyNone)]
        \o [k \in 1..Len(bill) |->
            GeoEnergyUsage("UNBILLED", energy_type, PyNone, PyInt(bill[k].billToDate))]
        \o [k \in 1..Len(costs) |->
            GeoEnergyUsage(costs[k].duration, energy_type,
                           PyInt(costs[k].energyAmount), PyInt(costs[k].costAmount))]

\* the energy types that occur in a present section
OccurringTypes ==
    {t \in GeoEnergyType :
        \/ OfType(PayloadSection("totalConsumptionList"), t) # <<>>
        \/ OfType(PayloadSection("billToDateList"), t) # <<>>
        \/ CostsKey(t) \in DOMAIN server.body}

PeriodicReturned ==
    /\ last.op = "get_periodic_usage"
    /\ Answered(200)
    /\ Returned

\* the positions of the entries of period in a sequence of EnergyUsage
OfPeriod(usage, period) == {k \in 1..Len(usage) : usage[k].period = period}

\* C11: on a 200 response get_periodic_usage returns exactly one
\* PeriodicEnergyUsage per energy type occurring in a present section of the
\* payload and none for any other type, and that object holds every entry
\* the sections contribute to its type (totalConsumptionList as FOREVER,
\* billToDateList as UNBILLED, the current costs of the type), none
\* overwritten; an absent section contributes nothing and raises nothing.
C11_OneObjectPerType ==
    PeriodicReturned =>
        LET rtn == last.ret.l IN
        /\ \A t \in OccurringTypes :
                Cardinality({i \in 1..Len(rtn) : rtn[i].type = t}) = 1
        /\ \A i \in 1..Len(rtn) :
                /\ rtn[i].type \in OccurringTypes
                /\ rtn[i].usage = ContributedTo(rtn[i].type)

\* the case of C11: a totalConsumptionList entry and a billToDateList entry
\* of ELECTRICITY merged with current costs while the gas section is absent
C11_Witness ==
    /\ PeriodicReturned
    /\ OfType(PayloadSection("totalConsumptionList"), "ELECTRICITY") # <<>>
    /\ OfType(PayloadSection("billToDateList"), "ELECTRICITY") # <<>>
    /\ PayloadSection("currentCostsElec") # <<>>
    /\ "currentCostsGas" \notin DOMAIN server.body
    /\ Len(last.ret.l) = 1
    /\ Len(last.ret.l[1].usage) = 3

\* C12: every PeriodicEnergyUsage returned by get_periodic_usage holds at
\* most one EnergyUsage per TimePeriod, whatever the payload (any number of
\* entries per section, any duration in the current-cost sections).
C12_OneUsagePerPeriod ==
    PeriodicReturned =>
        \A i \in 1..Len(last.ret.l), period \in GeoTimePeriod :
            Cardinality(OfPeriod(last.ret.l[i].usage, period)) <= 1

\* a lookup in a returned object that holds two entries of the period asked
CollidingLookup ==
    /\ last.op = "get_usage"
    /\ Cardinality(OfPeriod(ContributedTo(last.args.self.type), last.args.period)) >= 2

\* C20: when a response made two EnergyUsage entries of one period land in
\* the object of one energy type, get_usage(period) yields the entry that
\* was inserted first.
C20_FirstInsertedWins ==
    CollidingLookup =>
        LET inserted == ContributedTo(last.args.self.type)
            at == OfPeriod(inserted, last.args.period)
        IN  last.ret = inserted[CHOOSE k \in at : \A j \in at : k <= j]

\* the case of C20: the two colliding entries come from different sections
C20_Witness ==
    /\ CollidingLookup
    /\ last.args.period = "FOREVER"
    /\ OfType(PayloadSection("totalConsumptionList"), last.args.self.type) # <<>>
    /\ \E k \in 1..Len(PayloadSection(CostsKey(last.args.self.type))) :
            PayloadSection(CostsKey(last.args.self.type))[k].duration = "FOREVER"

\* C20 as stated: get_usage(period) yields the entry that was inserted last.
C20_LastInsertedWins ==
    CollidingLookup =>
        LET inserted == ContributedTo(last.args.self.type)
            at == OfPeriod(inserted, last.args.period)
        IN  last.ret = inserted[CHOOSE k \in at : \A j \in at : j <= k]

(***************************************************************************)
(* Period resolution.                                                      *)
(***************************************************************************)
Resolved(time_period) == last.op = "resolve" /\ last.args.self = time_period

\* a <= b on dates, field by field
DateLeq(a, b) ==
    \/ a[1] < b[1]
    \/ a[1] = b[1] /\ a[2] < b[2]
    \/ a[1] = b[1] /\ a[2] = b[2] /\ a[3] <= b[3]

\* C13: for every reference date and offset, resolve on WEEK returns as
\* start the Monday of the week that lies offset weeks from the week
\* containing the reference date, and as end the day six days later, a
\* Sunday, whatever weekday the reference date is.
C13_WeekIsMondayToSunday ==
    Resolved("WEEK") =>
        LET shifted == ToOrdinal(last.args.start_date) + 7 * last.args.offset
            start == last.ret.l[1]
            end == last.ret.l[2]
        IN  /\ Weekday(start) = 0
            /\ ToOrdinal(start) <= shifted
            /\ shifted <= ToOrdinal(start) + 6
            /\ ToOrdinal(end) = ToOrdinal(start) + 6
            /\ Weekday(end) = 6
            /\ start = FromOrdinal(ToOrdinal(start))
            /\ end = FromOrdinal(ToOrdinal(end))

\* the case of C13: a Wednesday, a negative offset, a week of another year
C13_Witness ==
    /\ Resolved("WEEK")
    /\ Weekday(last.args.start_date) = 2
    /\ last.args.offset < 0
    /\ last.ret.l[1][1] < last.args.start_date[1]
    /\ last.ret.l[1][2] # last.ret.l[2][2]

\* C14: for every reference date and offset, resolve on MONTH returns the
\* first and the last calendar day of the month that lies offset months
\* from the reference date's month: across year boundaries, from reference
\* days 29 to 31 that the target month lacks, and for a leap February.
C14_MonthIsFirstToLast ==
    Resolved("MONTH") =>
        LET months == last.args.start_date[1] * 12 + (last.args.start_date[2] - 1)
                        + last.args.offset
            year == months \div 12
            month == (months % 12) + 1
        IN  /\ last.ret.l[1] = <<year, month, 1>>
            /\ last.ret.l[2] = <<year, month, DaysInMonth(year, month)>>

\* the case of C14: from a 31st across the year's end into a leap February
C14_Witness ==
    /\ Resolved("MONTH")
    /\ last.args.start_date = <<2023, 12, 31>>
    /\ last.args.offset = 2
    /\ last.ret.l = <<<<2024, 2, 1>>, <<2024, 2, 29>>>>

\* C15: for DAY, WEEK and MONTH, every offset and every reference date,
\* resolve returns a pair of dates whose start is not after its end.
C15_StartNotAfterEnd ==
    (last.op = "resolve" /\ last.args.self \in DatedPeriods) =>
        /\ last.ret.l[1] # NoDate
        /\ last.ret.l[2] # NoDate
        /\ DateLeq(last.ret.l[1], last.ret.l[2])

\* the case of C15: a month whose two ends differ, reached with an offset
C15_Witness ==
    /\ Resolved("MONTH")
    /\ last.args.offset < 0
    /\ last.ret.l[1] # last.ret.l[2]
    /\ last.ret.l[2][3] = 28

(***************************************************************************)
(* Lifetime of the HTTP session.                                           *)
(***************************************************************************)
\* C16: a session the client created at construction is closed once the
\* client is torn down, and the teardown is reached on every exit path of
\* the `async with`: after a falsy authenticate or resolve_system and after
\* a data-fetching operation that returned or raised.
C16_OwnSessionClosed ==
    owns_client_session["c1"] => <>[](closed[client_session["c1"]])

\* the case of C16: the teardown after a data-fetching call raised
C16_Witness ==
    /\ last.op = "__aexit__"
    /\ last.args.exc # NoError
    /\ owns_client_session[last.client]
    /\ closed[client_session[last.client]]

C17_WitnessAuthenticate ==
    /\ last.op = "authenticate"
    /\ last.ret = PyBool(TRUE)
    /\ Truthy(PreSystem)
    /\ NowSystem = PreSystem

\* C18: a data-fetching call whose request fails in the transport fails with
\* GeoTogetherError("Connectivity Error"); after it, and after a call of any
\* operation whose in-flight request was cancelled, the token every session
\* holds and every client's system id are what they were before the call.
C18_FailedRequestKeepsState ==
    /\ (last.op \in DataOps /\ last.resp = TransportError) =>
            /\ last.raised = GeoTogetherError(<<"Connectivity Error">>)
            /\ headers = last.pre_headers
            /\ system_id = last.pre_system_id
    /\ last.resp = Cancelled =>
            /\ headers = last.pre_headers
            /\ system_id = last.pre_system_id

\* the case of C18: the request of a data call by a client holding a token
\* and a system id failed in the transport
C18_Witness ==
    /\ last.op = "get_historic_usage"
    /\ last.resp = TransportError
    /\ Len(last.requests) = 1
    /\ PreHeader # NoHeader
    /\ Truthy(PreSystem)
    /\ Raised("GeoTogetherError")

\* the other case of C18: a re-authentication was cancelled in flight
C18_WitnessCancelled ==
    /\ last.op = "authenticate"
    /\ last.resp = Cancelled
    /\ Raised("CancelledError")
    /\ PreHeader # NoHeader
    /\ NowHeader = PreHeader

(***************************************************************************)
(* The request of get_historic_usage.                                      *)
(***************************************************************************)
\* the date an isoformat() string denotes
FromIso(iso) == <<iso[1], iso[3], iso[5]>>

HistoricRequested ==
    /\ last.op = "get_historic_usage"
    /\ last.requests # <<>>

\* C19: for DAY, WEEK and MONTH and every offset k, the request of
\* get_historic_usage(period, k) is the one for offset -|k|: the endpoint of
\* the period with the from and to dates resolve gives for -|k|, hence the
\* same request for k and -k, and its range does not end after the period
\* that contains the reference date.
C19_OffsetSignIgnored ==
    HistoricRequested =>
        LET time_period == last.args.time_period
            k == last.args.offset
            back == IF k < 0 THEN k ELSE 0 - k
            dates == resolve(time_period, back, default_start_date)
            url == last.requests[1].url
        IN  /\ time_period \in DatedPeriods
            /\ Len(last.requests) = 1
            /\ url = _build_url(<<"api/userapi/system/smets2-historic-",
                                  HistoryType(time_period), "/", PreSystem,
                                  "?from=", IsoFormat(dates[1]),
                                  "&to=", IsoFormat(dates[2])>>)
            /\ DateLeq(FromIso(url[9]),
                       resolve(time_period, 0, default_start_date)[2])

\* the case of C19: a positive offset, requested as the month before
C19_Witness ==
    /\ HistoricRequested
    /\ last.args.offset > 0
    /\ last.args.time_period = "MONTH"
    /\ FromIso(last.requests[1].url[9])[2] # default_start_date[2]

\* the from and to dates of the request of a historic call
RequestedRange(call) ==
    <<FromIso(call.requests[1].url[7]), FromIso(call.requests[1].url[9])>>

\* C21: the from and to dates get_historic_usage requests are computed from
\* the date captured when the module was loaded, not from the date of the
\* call: a call that follows another with the same period and offset
\* requests the same from and to dates, however many days passed in between.
C21_RangeFromImportDate ==
    [][(last'.op = "get_historic_usage" /\ last'.requests # <<>>) =>
            /\ RequestedRange(last') =
                    resolve(last'.args.time_period,
                            IF last'.args.offset < 0 THEN last'.args.offset
                            ELSE 0 - last'.args.offset,
                            default_start_date)
            /\ (/\ last.op = "get_historic_usage"
                /\ last.requests # <<>>
                /\ last.args = last'.args) =>
                    RequestedRange(last') = RequestedRange(last)]_vars

\* the case of C21: a call made after days have passed asks for the day the
\* module was loaded, not for the day of the call
C21_Witness ==
    /\ HistoricRequested
    /\ last.args.time_period = "DAY"
    /\ last.args.offset = 0
    /\ today # default_start_date
    /\ RequestedRange(last) = <<default_start_date, default_start_date>>
    /\ RequestedRange(last) # resolve("DAY", 0, today)

(***************************************************************************)
(* Frame of the held token.                                                *)
(***************************************************************************)
\* a failed authenticate of a client that held a token
FailedReauthentication ==
    /\ last.op = "authenticate"
    /\ last.ret = PyBool(FALSE)
    /\ PreHeader # NoHeader

\* a historic call for a period without dates: it is rejected after the
\* preconditions passed, so no request is made for it
AsksUndatedPeriod(call) ==
    /\ call.op = "get_historic_usage"
    /\ call.args.time_period \in {"UNBILLED", "FOREVER"}

\* C22: an authenticate that fails (a status other than 200, a 200 without
\* accessToken, a transport error) leaves every held token in place; a
\* token changes only by a successful authenticate, which sets it, or by a
\* 401 on a data call, which removes it; so a data-fetching call that
\* follows a failed re-authentication of a client with a resolved system
\* passes the preconditions and is sent with the old token.
C22_FailedLoginKeepsToken ==
    [][/\ (last'.op = "authenticate" /\ last'.ret = PyBool(FALSE)) =>
            headers' = headers
       /\ headers' # headers =>
            \/ /\ last'.op = "authenticate"
               /\ last'.ret = PyBool(TRUE)
               /\ headers' = [headers EXCEPT ![client_session[last'.client]] =
                                    Bearer(last'.resp.body.accessToken)]
            \/ /\ last'.op \in DataOps
               /\ last'.resp.kind = "http"
               /\ last'.resp.status = 401
               /\ headers' = [headers EXCEPT ![client_session[last'.client]] = NoHeader]
       /\ (/\ FailedReauthentication
           /\ last'.op \in DataOps
           /\ last'.client = last.client
           /\ Truthy(NowSystem)
           /\ ~AsksUndatedPeriod(last')) =>
                /\ Len(last'.requests) = 1
                /\ last'.requests[1].authorization = PreHeader
                /\ last'.requests[1].authorization # NoHeader]_vars

\* the case of C22: a re-authentication failed and the old token is held
C22_Witness ==
    /\ FailedReauthentication
    /\ last.resp.kind = "http"
    /\ last.resp.status = 200
    /\ NowHeader = PreHeader
    /\ Truthy(NowSystem)

\* C23: the client never closes a session the caller injected at
\* construction: that session is open at every moment, also after the
\* client's teardown; a closed session is one the torn-down client created
\* for itself.
C23_InjectedSessionStaysOpen ==
    /\ ~closed[InjectedSession]
    /\ \A c \in Clients : ~owns_client_session[c] => ~closed[client_session[c]]
    /\ \A s \in Sessions :
            closed[s] =>
                /\ last.op = "__aexit__"
                /\ owns_client_session[last.client]
                /\ s = client_session[last.client]
                /\ s = OwnSession(last.client)

\* the case of C23: a client given the caller's session has been torn down
\* after its body raised, and the session is open
C23_Witness ==
    /\ last.op = "__aexit__"
    /\ ~owns_client_session[last.client]
    /\ client_session[last.client] = InjectedSession
    /\ last.args.exc # NoError
    /\ ~closed[InjectedSession]

====
